---- MODULE Spec2Model ----
(***************************************************************************)
(* running_tracker: one invocation of `run` (src/main.rs), i.e. the token  *)
(* lifecycle of FitbitApi::access_token over credentials.json followed by  *)
(* fetch_latest_run_activity and the activity-log summarizer               *)
(* (src/domain/fitbit.rs), then view::get and post_report.                 *)
(*                                                                         *)
(* credentials.json is a sequence of bytes, each a one-character string.   *)
(***************************************************************************)
EXTENDS Integers, Sequences, FiniteSets, TLC

VARIABLES
    file_exists,   \* credentials.json exists on disk
    file,          \* its content, a sequence of bytes
    now,           \* Utc::now() as read at line 119
    reply,         \* what the upstream answers to POST /oauth2/token
    activities,    \* what the upstream answers to activities/list.json
    tcx,           \* what the upstream answers to activities/<id>.tcx, deserialized
    since,         \* the --since argument, a sequence of characters
    overflow_checks, \* the build panics on integer overflow (debug) or wraps (release)
    preview,       \* the --preview argument
    text,          \* what view::get makes of the report
    posted,        \* what the platform answers to the post
    stdout_writable, \* a write to standard output succeeds
    pc,            \* position of the run
    tokens,        \* access_token: `tokens` bound by load_tokens (line 116)
    new_tokens,    \* access_token: `tokens` bound at line 126 / 138
    file_before,   \* content of credentials.json when store_tokens was entered
    wpos,          \* store_tokens: number of bytes write_all has written
    access,        \* what access_token returned to run
    calls,         \* the HTTP requests sent so far, in order
    fetched_log,   \* logId whose .tcx was requested (0: none)
    outcome,       \* how the run ended
    output         \* the ActivityOutput returned to run and handed to view::get

vars == <<file_exists, file, now, reply, activities, tcx, since, overflow_checks,
          preview, text, posted, stdout_writable, pc, tokens, new_tokens, file_before, wpos, access,
          calls, fetched_log, outcome, output>>

----------------------------------------------------------------------------
(* Bounds of the model *)

\* longest access_token string
MaxTokLen == 2
\* most trackpoints in a lap
MaxLen == 4
\* most activities in the list
MaxActs == 2

(* Program constants *)

\* the safety margin of access_token, in seconds
MARGIN == 60
\* the split distance of create_split_time_summary, in meters
KM == 1000
\* bucket limits of create_heart_rate_summary
LOW == 115
HIGH == 150

----------------------------------------------------------------------------
(* Option and Result values *)

None == [some |-> FALSE]
Some(x) == [some |-> TRUE, v |-> x]

Ok(x) == [kind |-> "Ok", v |-> x]
Err(e) == [kind |-> "Err", err |-> e]

----------------------------------------------------------------------------
(* Characters, timestamps and the JSON form of AuthorizationTokens *)

QUOTE == "\""
\* the characters of the model's tokens: a plain one and one serde_json escapes
Chars == {"a", QUOTE}
Digits == <<"0", "1", "2", "3", "4", "5", "6", "7", "8", "9">>
HexDigits ==
    <<"0", "1", "2", "3", "4", "5", "6", "7", "8", "9", "a", "b", "c", "d",
      "e", "f">>
\* the printable ASCII characters, from the space (32) to the tilde (126); the
\* grave accent (96) is named by its escape
Ascii ==
    <<" ", "!", "\"", "#", "$", "%", "&", "'", "(", ")", "*", "+", ",", "-",
      ".", "/", "0", "1", "2", "3", "4", "5", "6", "7", "8", "9", ":", ";",
      "<", "=", ">", "?", "@", "A", "B", "C", "D", "E", "F", "G", "H", "I",
      "J", "K", "L", "M", "N", "O", "P", "Q", "R", "S", "T", "U", "V", "W",
      "X", "Y", "Z", "[", "\\", "]", "^", "_", "\\u0060", "a", "b", "c", "d",
      "e", "f", "g", "h", "i", "j", "k", "l", "m", "n", "o", "p", "q", "r",
      "s", "t", "u", "v", "w", "x", "y", "z", "{", "|", "}", "~">>

\* a character that a string of this module cannot hold is named by its escape,
\* one element standing for the one character
EscapeName(code) ==
    "\\u" \o HexDigits[(code \div 4096) + 1] \o HexDigits[((code \div 256) % 16) + 1]
          \o HexDigits[((code \div 16) % 16) + 1] \o HexDigits[(code % 16) + 1]

\* the character of a code point of the basic plane
CharOf(code) ==
    IF code = 9 THEN "\t"
    ELSE IF code = 10 THEN "\n"
    ELSE IF code = 12 THEN "\f"
    ELSE IF code = 13 THEN "\r"
    ELSE IF code >= 32 /\ code <= 126 THEN Ascii[code - 31]
    ELSE EscapeName(code)

\* JSON white space
Whitespace == {" ", "\n", "\t", "\r"}
\* the characters 0x00 to 0x1F
Control == {CharOf(c) : c \in 0..31}
\* char::is_whitespace
UnicodeWhitespace ==
    {" ", "\t", "\n", "\f", "\r"} \cup {CharOf(c) : c \in {11, 133, 160, 5760, 8192, 8193, 8194, 8195, 8196, 8197, 8198, 8199, 8200, 8201, 8202, 8232, 8233, 8239, 8287, 12288}}

RECURSIVE Strings(_)
Strings(n) ==
    IF n = 0 THEN {<<>>}
    ELSE LET shorter == Strings(n - 1)
         IN shorter \cup {Append(s, c) : s \in {t \in shorter : Len(t) = n - 1}, c \in Chars}

\* a time is [days, secs, nanos]: the days since 1970-01-01, the second of the day
\* and the sub-second part, which is 10^9 and more within a leap second
Time(s, n) == [days |-> s \div 86400, secs |-> s % 86400, nanos |-> n]
Later(a, b) ==
    \/ a.days > b.days
    \/ a.days = b.days /\ a.secs > b.secs
    \/ a.days = b.days /\ a.secs = b.secs /\ a.nanos > b.nanos
PlusSeconds(t, s) ==
    LET total == t.secs + (s % 86400)
    IN [days |-> t.days + (s \div 86400) + (total \div 86400),
        secs |-> total % 86400,
        nanos |-> t.nanos]

\* the proleptic Gregorian calendar, days counted from 1970-01-01
MIN_YEAR == 0 - 262143
MAX_YEAR == 262142
IsLeap(y) == (y % 4 = 0 /\ y % 100 # 0) \/ y % 400 = 0
DaysInMonth(y, m) ==
    IF m = 2 THEN (IF IsLeap(y) THEN 29 ELSE 28)
    ELSE IF m \in {4, 6, 9, 11} THEN 30 ELSE 31

CivilFromDays(days) ==
    LET z == days + 719468
        era == z \div 146097
        doe == z - era * 146097
        yoe == (doe - doe \div 1460 + doe \div 36524 - doe \div 146096) \div 365
        doy == doe - (365 * yoe + yoe \div 4 - yoe \div 100)
        mp == (5 * doy + 2) \div 153
        d == doy - (153 * mp + 2) \div 5 + 1
        m == IF mp < 10 THEN mp + 3 ELSE mp - 9
    IN [year |-> yoe + era * 400 + (IF m <= 2 THEN 1 ELSE 0), month |-> m, day |-> d]

DaysFromCivil(year, m, d) ==
    LET y == IF m <= 2 THEN year - 1 ELSE year
        era == y \div 400
        yoe == y - era * 400
        doy == (153 * (IF m > 2 THEN m - 3 ELSE m + 9) + 2) \div 5 + d - 1
        doe == yoe * 365 + yoe \div 4 - yoe \div 100 + doy
    IN era * 146097 + doe - 719468

\* n in decimal, w digits wide
RECURSIVE DigitsOf(_, _)
DigitsOf(n, w) ==
    IF w = 0 THEN <<>> ELSE Append(DigitsOf(n \div 10, w - 1), Digits[(n % 10) + 1])

\* n in decimal, at least w digits wide
RECURSIVE DigitsAtLeast(_, _)
DigitsAtLeast(n, w) ==
    IF w <= 1 /\ n < 10 THEN <<Digits[n + 1]>>
    ELSE Append(DigitsAtLeast(n \div 10, w - 1), Digits[(n % 10) + 1])

IsDigit(c) == \E d \in 0..9 : Digits[d + 1] = c
DigitValue(c) == CHOOSE d \in 0..9 : Digits[d + 1] = c

RECURSIVE LeadingZeros(_)
LeadingZeros(s) == IF s # <<>> /\ Head(s) = "0" THEN 1 + LeadingZeros(Tail(s)) ELSE 0

RECURSIVE DecimalOf(_)
DecimalOf(s) ==
    IF s = <<>> THEN 0
    ELSE 10 * DecimalOf(SubSeq(s, 1, Len(s) - 1)) + DigitValue(s[Len(s)])

\* the number a run of digits spells; one of ten digits and more is beyond every
\* field of a date and is given as 2^31 - 1
NumberOf(s) ==
    LET z == LeadingZeros(s)
    IN IF Len(s) - z > 9 THEN 2147483647 ELSE DecimalOf(SubSeq(s, z + 1, Len(s)))

\* the sub-second part as chrono writes it: nothing, or 3, 6 or 9 digits
Fraction(nanos) ==
    IF nanos = 0 THEN <<>>
    ELSE IF nanos % 1000000 = 0 THEN <<".">> \o DigitsOf(nanos \div 1000000, 3)
    ELSE IF nanos % 1000 = 0 THEN <<".">> \o DigitsOf(nanos \div 1000, 6)
    ELSE <<".">> \o DigitsOf(nanos, 9)

\* the year: four digits, or a sign and four digits or more
FormatYear(y) ==
    IF y >= 0 /\ y <= 9999 THEN DigitsOf(y, 4)
    ELSE IF y < 0 THEN <<"-">> \o DigitsAtLeast(0 - y, 4)
    ELSE <<"+">> \o DigitsAtLeast(y, 4)

\* Serialize of DateTime<Utc>: 1970-01-01T00:02:40Z, ...:40.500Z, ...; a leap
\* second is written as second 60
FormatTime(t) ==
    LET date == CivilFromDays(t.days)
        leap == t.nanos >= 1000000000
    IN FormatYear(date.year) \o <<"-">> \o DigitsOf(date.month, 2) \o <<"-">>
       \o DigitsOf(date.day, 2) \o <<"T">> \o DigitsOf(t.secs \div 3600, 2) \o <<":">>
       \o DigitsOf((t.secs % 3600) \div 60, 2) \o <<":">>
       \o DigitsOf((t.secs % 60) + (IF leap THEN 1 ELSE 0), 2)
       \o Fraction(t.nanos % 1000000000) \o <<"Z">>

Lit(f, i, c) == i <= Len(f) /\ f[i] = c

RECURSIVE SkipSpace(_, _)
SkipSpace(s, i) ==
    IF i <= Len(s) /\ s[i] \in UnicodeWhitespace THEN SkipSpace(s, i + 1) ELSE i

\* the digits from s[i] on, at most max of them
RECURSIVE CountDigits(_, _, _)
CountDigits(s, i, max) ==
    IF max > 0 /\ i <= Len(s) /\ IsDigit(s[i]) THEN 1 + CountDigits(s, i + 1, max - 1)
    ELSE 0

\* 1 to max digits at s[i]
ScanNumber(s, i, max) ==
    LET n == CountDigits(s, i, max)
    IN IF n = 0 THEN [ok |-> FALSE]
       ELSE [ok |-> TRUE, val |-> NumberOf(SubSeq(s, i, i + n - 1)), next |-> i + n]

\* a numeric item of a format: white space is skipped, then 1 to max digits
ParseNumber(s, i, max) == ScanNumber(s, SkipSpace(s, i), max)

\* the year item: a sign lifts the limit of four digits
ParseYear(s, i) ==
    LET j == SkipSpace(s, i) IN
    IF Lit(s, j, "-")
    THEN LET p == ScanNumber(s, j + 1, Len(s))
         IN IF p.ok THEN [p EXCEPT !.val = 0 - p.val] ELSE p
    ELSE IF Lit(s, j, "+") THEN ScanNumber(s, j + 1, Len(s))
    ELSE ScanNumber(s, j, 4)

\* NaiveDate::from_ymd_opt
IsDate(year, month, day) ==
    /\ year >= MIN_YEAR /\ year <= MAX_YEAR
    /\ month >= 1 /\ month <= 12
    /\ day >= 1 /\ day <= DaysInMonth(year, month)

\* the digits after the point as nanoseconds: the first nine count
FractionNanos(s) ==
    LET d == IF Len(s) > 9 THEN SubSeq(s, 1, 9) ELSE s
    IN DecimalOf(d) * (10 ^ (9 - Len(d)))

\* the sub-second item: nothing, or a point and one digit or more
ParseFraction(s, i) ==
    IF ~Lit(s, i, ".") THEN [ok |-> TRUE, val |-> 0, next |-> i]
    ELSE LET n == CountDigits(s, i + 1, Len(s))
         IN IF n = 0 THEN [ok |-> FALSE]
            ELSE [ok |-> TRUE, val |-> FractionNanos(SubSeq(s, i + 1, i + n)),
                  next |-> i + 1 + n]

RECURSIVE SkipColonOrSpace(_, _)
SkipColonOrSpace(s, i) ==
    IF i <= Len(s) /\ (s[i] = ":" \/ s[i] \in UnicodeWhitespace)
    THEN SkipColonOrSpace(s, i + 1) ELSE i

\* U+2212, the minus sign that an offset may be written with
MINUS_SIGN == CharOf(8722)

\* the offset from UTC in seconds: Z, or a sign, two digits of hours, colons or
\* white space, two digits of minutes
TimezoneOffset(s, i) ==
    IF Lit(s, i, "Z") \/ Lit(s, i, "z") THEN [ok |-> TRUE, val |-> 0, next |-> i + 1]
    ELSE IF ~(Lit(s, i, "+") \/ Lit(s, i, "-") \/ Lit(s, i, MINUS_SIGN)) THEN [ok |-> FALSE]
    ELSE IF ~(i + 2 <= Len(s) /\ IsDigit(s[i + 1]) /\ IsDigit(s[i + 2])) THEN [ok |-> FALSE]
    ELSE LET hours == 10 * DigitValue(s[i + 1]) + DigitValue(s[i + 2])
             j == SkipColonOrSpace(s, i + 3)
         IN IF ~(j + 1 <= Len(s) /\ IsDigit(s[j]) /\ IsDigit(s[j + 1])) THEN [ok |-> FALSE]
            ELSE IF DigitValue(s[j]) > 5 THEN [ok |-> FALSE]
            ELSE LET minutes == 10 * DigitValue(s[j]) + DigitValue(s[j + 1])
                     seconds == hours * 3600 + minutes * 60
                 IN [ok |-> TRUE,
                     val |-> IF s[i] = "+" THEN seconds ELSE 0 - seconds,
                     next |-> j + 2]

\* the zone: UTC in either case, or an offset
ParseZone(s, i) ==
    IF /\ i + 2 <= Len(s)
       /\ s[i] \in {"U", "u"} /\ s[i + 1] \in {"T", "t"} /\ s[i + 2] \in {"C", "c"}
    THEN [ok |-> TRUE, val |-> 0, next |-> i + 3]
    ELSE TimezoneOffset(s, i)

\* Deserialize of DateTime<Utc>, i.e. FromStr of DateTime<FixedOffset>: the items
\* of RFC 3339 with white space allowed before a number, a hyphen, a colon and the
\* zone and after it, T, t or a space between date and time, and second 60; the
\* time in UTC must be a date of the calendar too
ParseTime(s) ==
    LET year == ParseYear(s, 1)
        hyphen1 == SkipSpace(s, year.next)
        month == ParseNumber(s, hyphen1 + 1, 2)
        hyphen2 == SkipSpace(s, month.next)
        day == ParseNumber(s, hyphen2 + 1, 2)
        hour == ParseNumber(s, day.next + 1, 2)
        colon1 == SkipSpace(s, hour.next)
        minute == ParseNumber(s, colon1 + 1, 2)
        colon2 == SkipSpace(s, minute.next)
        second == ParseNumber(s, colon2 + 1, 2)
        fraction == ParseFraction(s, second.next)
        zone == ParseZone(s, SkipSpace(s, fraction.next))
    IN IF /\ year.ok /\ Lit(s, hyphen1, "-")
          /\ month.ok /\ Lit(s, hyphen2, "-")
          /\ day.ok /\ day.next <= Len(s) /\ s[day.next] \in {"T", "t", " "}
          /\ hour.ok /\ Lit(s, colon1, ":")
          /\ minute.ok /\ Lit(s, colon2, ":")
          /\ second.ok /\ fraction.ok /\ zone.ok
          /\ SkipSpace(s, zone.next) = Len(s) + 1
          /\ IsDate(year.val, month.val, day.val)
          /\ hour.val <= 23 /\ minute.val <= 59 /\ second.val <= 60
          /\ zone.val > 0 - 86400 /\ zone.val < 86400
       THEN LET leap == second.val = 60
                local == [days |-> DaysFromCivil(year.val, month.val, day.val),
                          secs |-> hour.val * 3600 + minute.val * 60
                                   + (IF leap THEN 59 ELSE second.val),
                          nanos |-> fraction.val + (IF leap THEN 1000000000 ELSE 0)]
                utc == PlusSeconds(local, 0 - zone.val)
            IN IF /\ utc.days >= DaysFromCivil(MIN_YEAR, 1, 1)
                  /\ utc.days <= DaysFromCivil(MAX_YEAR, 12, 31)
               THEN Some(utc)
               ELSE None
       ELSE None

\* NaiveDate::parse_from_str(s, "%Y-%m-%d"): the items in turn, nothing after them,
\* and a day that exists
parse_from_str(s) ==
    LET year == ParseYear(s, 1)
        month == ParseNumber(s, year.next + 1, 2)
        day == ParseNumber(s, month.next + 1, 2)
    IN IF /\ year.ok /\ Lit(s, year.next, "-")
          /\ month.ok /\ Lit(s, month.next, "-")
          /\ day.ok /\ day.next = Len(s) + 1
          /\ IsDate(year.val, month.val, day.val)
       THEN Some([year |-> year.val, month |-> month.val, day |-> day.val])
       ELSE None

\* format_escaped_str: what serde_json writes for one character of a string
Escape(c) ==
    IF c = QUOTE THEN <<"\\", QUOTE>>
    ELSE IF c = "\\" THEN <<"\\", "\\">>
    ELSE IF c = "\n" THEN <<"\\", "n">>
    ELSE IF c = "\t" THEN <<"\\", "t">>
    ELSE IF c = "\r" THEN <<"\\", "r">>
    ELSE IF c = "\f" THEN <<"\\", "f">>
    ELSE IF c = CharOf(8) THEN <<"\\", "b">>
    ELSE IF c \in Control
    THEN LET code == CHOOSE k \in 0..31 : CharOf(k) = c
         IN <<"\\", "u", "0", "0", HexDigits[(code \div 16) + 1], HexDigits[(code % 16) + 1]>>
    ELSE <<c>>

RECURSIVE EscapeAll(_)
EscapeAll(s) == IF s = <<>> THEN <<>> ELSE Escape(Head(s)) \o EscapeAll(Tail(s))

Quoted(s) == <<QUOTE>> \o EscapeAll(s) \o <<QUOTE>>

KeyAccessToken == <<"a", "c", "c", "e", "s", "s", "_", "t", "o", "k", "e", "n">>
KeyRefreshToken == <<"r", "e", "f", "r", "e", "s", "h", "_", "t", "o", "k", "e", "n">>
KeyExpiresAt == <<"e", "x", "p", "i", "r", "e", "s", "_", "a", "t">>

\* serde_json::to_string_pretty(tokens): one member a line, indented by two spaces
to_string_pretty(t) ==
    <<"{", "\n", " ", " ">> \o Quoted(KeyAccessToken) \o <<":", " ">>
    \o Quoted(t.access_token)
    \o <<",", "\n", " ", " ">> \o Quoted(KeyRefreshToken) \o <<":", " ">>
    \o Quoted(t.refresh_token)
    \o <<",", "\n", " ", " ">> \o Quoted(KeyExpiresAt) \o <<":", " ">>
    \o Quoted(FormatTime(t.expires_at))
    \o <<"\n", "}">>

RECURSIVE SkipWhitespace(_, _)
SkipWhitespace(f, i) ==
    IF i <= Len(f) /\ f[i] \in Whitespace THEN SkipWhitespace(f, i + 1) ELSE i

IsHex(c) == IsDigit(c) \/ c \in {"a", "b", "c", "d", "e", "f", "A", "B", "C", "D", "E", "F"}
HexValue(c) ==
    IF IsDigit(c) THEN DigitValue(c)
    ELSE IF c \in {"a", "A"} THEN 10
    ELSE IF c \in {"b", "B"} THEN 11
    ELSE IF c \in {"c", "C"} THEN 12
    ELSE IF c \in {"d", "D"} THEN 13
    ELSE IF c \in {"e", "E"} THEN 14
    ELSE 15

\* decode_hex_escape: the four hex digits at f[i], or -1
Hex4(f, i) ==
    IF i + 3 <= Len(f) /\ \A k \in i..(i + 3) : IsHex(f[k])
    THEN 4096 * HexValue(f[i]) + 256 * HexValue(f[i + 1])
         + 16 * HexValue(f[i + 2]) + HexValue(f[i + 3])
    ELSE 0 - 1

IsLeadingSurrogate(n) == n >= 55296 /\ n <= 56319
IsTrailingSurrogate(n) == n >= 56320 /\ n <= 57343

\* parse_str from inside the string at f[i]: the value with its escapes decoded
\* and the index after the closing quote. A raw control character, an unknown
\* escape and a surrogate without its pair are errors; a pair of surrogates is
\* one character, named by its two escapes.
RECURSIVE ScanString(_, _, _)
ScanString(f, i, acc) ==
    IF i > Len(f) THEN [ok |-> FALSE]
    ELSE IF f[i] = QUOTE THEN [ok |-> TRUE, val |-> acc, next |-> i + 1]
    ELSE IF f[i] \in Control THEN [ok |-> FALSE]
    ELSE IF f[i] # "\\" THEN ScanString(f, i + 1, Append(acc, f[i]))
    ELSE IF i + 1 > Len(f) THEN [ok |-> FALSE]
    ELSE IF f[i + 1] \in {QUOTE, "\\", "/"} THEN ScanString(f, i + 2, Append(acc, f[i + 1]))
    ELSE IF f[i + 1] = "b" THEN ScanString(f, i + 2, Append(acc, CharOf(8)))
    ELSE IF f[i + 1] = "f" THEN ScanString(f, i + 2, Append(acc, "\f"))
    ELSE IF f[i + 1] = "n" THEN ScanString(f, i + 2, Append(acc, "\n"))
    ELSE IF f[i + 1] = "r" THEN ScanString(f, i + 2, Append(acc, "\r"))
    ELSE IF f[i + 1] = "t" THEN ScanString(f, i + 2, Append(acc, "\t"))
    ELSE IF f[i + 1] # "u" THEN [ok |-> FALSE]
    ELSE LET n1 == Hex4(f, i + 2)
             n2 == Hex4(f, i + 8)
         IN IF n1 < 0 \/ IsTrailingSurrogate(n1) THEN [ok |-> FALSE]
            ELSE IF ~IsLeadingSurrogate(n1) THEN ScanString(f, i + 6, Append(acc, CharOf(n1)))
            ELSE IF Lit(f, i + 6, "\\") /\ Lit(f, i + 7, "u") /\ IsTrailingSurrogate(n2)
            THEN ScanString(f, i + 12, Append(acc, EscapeName(n1) \o EscapeName(n2)))
            ELSE [ok |-> FALSE]

\* a JSON string starting at f[i]
ParseString(f, i) ==
    IF Lit(f, i, QUOTE) THEN ScanString(f, i + 1, <<>>) ELSE [ok |-> FALSE]

\* ignore_str from inside the string at f[i]: the index after the closing quote,
\* or 0. The escapes are checked for their shape only.
RECURSIVE IgnoreString(_, _)
IgnoreString(f, i) ==
    IF i > Len(f) THEN 0
    ELSE IF f[i] = QUOTE THEN i + 1
    ELSE IF f[i] \in Control THEN 0
    ELSE IF f[i] # "\\" THEN IgnoreString(f, i + 1)
    ELSE IF i + 1 > Len(f) THEN 0
    ELSE IF f[i + 1] \in {QUOTE, "\\", "/", "b", "f", "n", "r", "t"} THEN IgnoreString(f, i + 2)
    ELSE IF f[i + 1] = "u" /\ Hex4(f, i + 2) >= 0 THEN IgnoreString(f, i + 6)
    ELSE 0

RECURSIVE SkipDigits(_, _)
SkipDigits(f, i) == IF i <= Len(f) /\ IsDigit(f[i]) THEN SkipDigits(f, i + 1) ELSE i

\* a JSON number at f[i]: the index after it, or 0
IgnoreNumber(f, i) ==
    LET j == IF Lit(f, i, "-") THEN i + 1 ELSE i
        int == IF ~(j <= Len(f) /\ IsDigit(f[j])) THEN 0
               ELSE IF f[j] = "0" THEN (IF j + 1 <= Len(f) /\ IsDigit(f[j + 1]) THEN 0 ELSE j + 1)
               ELSE SkipDigits(f, j + 1)
        dec == IF int = 0 \/ ~Lit(f, int, ".") THEN int
               ELSE IF SkipDigits(f, int + 1) = int + 1 THEN 0
               ELSE SkipDigits(f, int + 1)
        sign == IF Lit(f, dec + 1, "+") \/ Lit(f, dec + 1, "-") THEN dec + 2 ELSE dec + 1
    IN IF dec = 0 \/ ~(Lit(f, dec, "e") \/ Lit(f, dec, "E")) THEN dec
       ELSE IF SkipDigits(f, sign) = sign THEN 0
       ELSE SkipDigits(f, sign)

Word(f, i, w) == i + Len(w) - 1 <= Len(f) /\ SubSeq(f, i, i + Len(w) - 1) = w

\* ignore_value: any JSON value from f[i] on, white space first: the index after
\* it, or 0
RECURSIVE IgnoreValue(_, _)
RECURSIVE IgnoreElements(_, _)
RECURSIVE IgnoreMembers(_, _)
IgnoreValue(f, i) ==
    LET j == SkipWhitespace(f, i) IN
    IF j > Len(f) THEN 0
    ELSE IF f[j] = QUOTE THEN IgnoreString(f, j + 1)
    ELSE IF f[j] = "-" \/ IsDigit(f[j]) THEN IgnoreNumber(f, j)
    ELSE IF Word(f, j, <<"n", "u", "l", "l">>) THEN j + 4
    ELSE IF Word(f, j, <<"t", "r", "u", "e">>) THEN j + 4
    ELSE IF Word(f, j, <<"f", "a", "l", "s", "e">>) THEN j + 5
    ELSE IF f[j] = "["
    THEN (IF Lit(f, SkipWhitespace(f, j + 1), "]") THEN SkipWhitespace(f, j + 1) + 1
          ELSE IgnoreElements(f, j + 1))
    ELSE IF f[j] = "{"
    THEN (IF Lit(f, SkipWhitespace(f, j + 1), "}") THEN SkipWhitespace(f, j + 1) + 1
          ELSE IgnoreMembers(f, j + 1))
    ELSE 0

IgnoreElements(f, i) ==
    LET v == IgnoreValue(f, i)
        j == SkipWhitespace(f, v)
    IN IF v = 0 THEN 0
       ELSE IF Lit(f, j, ",") THEN IgnoreElements(f, j + 1)
       ELSE IF Lit(f, j, "]") THEN j + 1
       ELSE 0

IgnoreMembers(f, i) ==
    LET k == SkipWhitespace(f, i)
        key == IgnoreString(f, k + 1)
        colon == SkipWhitespace(f, key)
        v == IgnoreValue(f, colon + 1)
        j == SkipWhitespace(f, v)
    IN IF ~Lit(f, k, QUOTE) \/ key = 0 \/ ~Lit(f, colon, ":") \/ v = 0 THEN 0
       ELSE IF Lit(f, j, ",") THEN IgnoreMembers(f, j + 1)
       ELSE IF Lit(f, j, "}") THEN j + 1
       ELSE 0

NoFields == [access_token |-> None, refresh_token |-> None, expires_at |-> None]

\* visit_map: the members of the object from f[i] on, in any order. A field given
\* twice, a field whose value is no string or a time that does not parse is an
\* error; a member of another name is skipped whatever its value; at the closing
\* brace every field must have been given.
RECURSIVE ParseMembers(_, _, _)
RECURSIVE MemberValue(_, _, _)
RECURSIVE KnownMember(_, _, _, _)
RECURSIVE ExpiresAtMember(_, _, _, _)
RECURSIVE NextMember(_, _, _)
ParseMembers(f, i, got) == MemberValue(f, ParseString(f, SkipWhitespace(f, i)), got)

\* next_key has given key; next_value follows the colon
MemberValue(f, key, got) ==
    IF ~key.ok \/ ~Lit(f, SkipWhitespace(f, key.next), ":") THEN [ok |-> FALSE]
    ELSE IF key.val \in {KeyAccessToken, KeyRefreshToken, KeyExpiresAt}
    THEN KnownMember(f, key.val,
                     ParseString(f, SkipWhitespace(f, SkipWhitespace(f, key.next) + 1)), got)
    ELSE NextMember(f, IgnoreValue(f, SkipWhitespace(f, key.next) + 1), got)

\* a field of the struct: not given before, and a string
KnownMember(f, name, value, got) ==
    IF ~value.ok THEN [ok |-> FALSE]
    ELSE IF name = KeyAccessToken
    THEN (IF got.access_token.some THEN [ok |-> FALSE]
          ELSE NextMember(f, value.next, [got EXCEPT !.access_token = Some(value.val)]))
    ELSE IF name = KeyRefreshToken
    THEN (IF got.refresh_token.some THEN [ok |-> FALSE]
          ELSE NextMember(f, value.next, [got EXCEPT !.refresh_token = Some(value.val)]))
    ELSE (IF got.expires_at.some THEN [ok |-> FALSE]
          ELSE ExpiresAtMember(f, value.next, ParseTime(value.val), got))

ExpiresAtMember(f, end, time, got) ==
    IF ~time.some THEN [ok |-> FALSE]
    ELSE NextMember(f, end, [got EXCEPT !.expires_at = time])

\* after the member that ends before f[end] (0: it was no JSON value): a comma and
\* the next member, or the closing brace
NextMember(f, end, got) ==
    IF end = 0 THEN [ok |-> FALSE]
    ELSE IF Lit(f, SkipWhitespace(f, end), ",")
    THEN ParseMembers(f, SkipWhitespace(f, end) + 1, got)
    ELSE IF Lit(f, SkipWhitespace(f, end), "}")
            /\ got.access_token.some /\ got.refresh_token.some /\ got.expires_at.some
    THEN [ok |-> TRUE,
          val |-> [access_token |-> got.access_token.v,
                   refresh_token |-> got.refresh_token.v,
                   expires_at |-> got.expires_at.v],
          next |-> SkipWhitespace(f, end) + 1]
    ELSE [ok |-> FALSE]

\* the last element of the array form: a time, then the closing bracket
LastElement(f, access_token, refresh_token, expires_at, time) ==
    IF expires_at.ok /\ time.some /\ Lit(f, SkipWhitespace(f, expires_at.next), "]")
    THEN [ok |-> TRUE,
          val |-> [access_token |-> access_token,
                   refresh_token |-> refresh_token,
                   expires_at |-> time.v],
          next |-> SkipWhitespace(f, expires_at.next) + 1]
    ELSE [ok |-> FALSE]

\* the element after the comma that follows the string before
ThirdElement(f, access_token, refresh_token, expires_at) ==
    LastElement(f, access_token, refresh_token, expires_at,
                IF expires_at.ok THEN ParseTime(expires_at.val) ELSE None)

SecondElement(f, access_token, refresh_token) ==
    IF refresh_token.ok /\ Lit(f, SkipWhitespace(f, refresh_token.next), ",")
    THEN ThirdElement(f, access_token, refresh_token.val,
                      ParseString(f, SkipWhitespace(f, SkipWhitespace(f, refresh_token.next) + 1)))
    ELSE [ok |-> FALSE]

FirstElement(f, access_token) ==
    IF access_token.ok /\ Lit(f, SkipWhitespace(f, access_token.next), ",")
    THEN SecondElement(f, access_token.val,
                       ParseString(f, SkipWhitespace(f, SkipWhitespace(f, access_token.next) + 1)))
    ELSE [ok |-> FALSE]

\* visit_seq: the array form, the three fields in the order of the struct
ParseElements(f, i) == FirstElement(f, ParseString(f, SkipWhitespace(f, i)))

\* the AuthorizationTokens value at the start of f and the index after it
ParseTokens(f) ==
    IF Lit(f, SkipWhitespace(f, 1), "{") THEN ParseMembers(f, SkipWhitespace(f, 1) + 1, NoFields)
    ELSE IF Lit(f, SkipWhitespace(f, 1), "[") THEN ParseElements(f, SkipWhitespace(f, 1) + 1)
    ELSE [ok |-> FALSE]

\* Deserializer::end: nothing but white space after the value
End(f, p) ==
    IF p.ok /\ SkipWhitespace(f, p.next) = Len(f) + 1 THEN Some(p.val) ELSE None

\* serde_json::from_reader: one value, then nothing but whitespace
from_reader(f) == End(f, ParseTokens(f))

load_tokens(exists, f) ==
    IF ~exists THEN None ELSE from_reader(f)

\* one byte written at offset i (0-based) of the open file: overwrite or extend
WriteAt(f, i, byte) ==
    IF i < Len(f) THEN [f EXCEPT ![i + 1] = byte] ELSE Append(f, byte)

\* line 70: Utc::now() + Duration::seconds(expires_in), at being that reading of
\* the clock
from_authorization_response(response, at) ==
    [access_token |-> response.access_token,
     refresh_token |-> response.refresh_token,
     expires_at |-> PlusSeconds(at, response.expires_in)]

\* the margin taken twice
IsFreshDoubleMargin(t, at) == Later(t.expires_at, PlusSeconds(at, 2 * MARGIN))

\* line 119
IsFresh(t, at) == Later(t.expires_at, PlusSeconds(at, MARGIN))

----------------------------------------------------------------------------
(* The oauth2/token endpoint *)

\* refresh_token: send().await?, error_for_status(), json().await?
refresh_token(r) ==
    IF r.kind = "unreachable" THEN Err("transport")
    ELSE IF r.kind = "rejected" THEN Err("status")
    ELSE IF r.kind = "garbled" THEN Err("decode")
    ELSE Ok(Some(r.response))

\* authorize: the same request with grant_type authorization_code
authorize(r) ==
    IF r.kind = "unreachable" THEN Err("transport")
    ELSE IF r.kind = "rejected" THEN Err("status")
    ELSE IF r.kind = "garbled" THEN Err("decode")
    ELSE Ok(r.response)

----------------------------------------------------------------------------
(* activity: the summarizer *)

Pow2(n) == 2 ^ n

RECURSIVE SumSeq(_)
SumSeq(s) == IF s = <<>> THEN 0 ELSE Head(s) + SumSeq(Tail(s))

RECURSIVE MaxSeq(_)
MaxSeq(s) ==
    IF Len(s) = 1 THEN Head(s)
    ELSE LET m == MaxSeq(Tail(s)) IN IF Head(s) >= m THEN Head(s) ELSE m

\* f64 remainder: the sign of the result is the sign of the dividend
Rem(d, m) == IF d >= 0 THEN d % m ELSE 0 - ((0 - d) % m)

\* the test for zero left out
IsCrossingAtZero(d) == Rem(d, KM) = 0

\* line 376: *d != 0.0 && d % 1000.0 == 0.0
IsCrossing(d) == d # 0 /\ Rem(d, KM) = 0

\* the loop of create_split_time_summary from sample n (0-based) on.
\* n as u32 - prev_split is left unwrapped: a negative entry is an underflow.
RECURSIVE SplitLoop(_, _, _, _)
SplitLoop(distance_meters, n, split_seconds, i) ==
    IF n >= Len(distance_meters) THEN split_seconds
    ELSE IF IsCrossing(distance_meters[n + 1])
         THEN LET prev_split == IF i = 0 THEN 0 ELSE SumSeq(split_seconds)
              IN SplitLoop(distance_meters, n + 1,
                           Append(split_seconds, n - prev_split), i + 1)
         ELSE SplitLoop(distance_meters, n + 1, split_seconds, i)

\* the previous split taken for the sum of the splits so far
RECURSIVE SplitLoopLast(_, _, _)
SplitLoopLast(distance_meters, n, split_seconds) ==
    IF n >= Len(distance_meters) THEN split_seconds
    ELSE IF IsCrossing(distance_meters[n + 1])
         THEN LET prev_split == IF split_seconds = <<>> THEN 0
                                ELSE split_seconds[Len(split_seconds)]
              IN SplitLoopLast(distance_meters, n + 1,
                               Append(split_seconds, n - prev_split))
         ELSE SplitLoopLast(distance_meters, n + 1, split_seconds)

create_split_time_summary_last(distance_meters) ==
    SplitLoopLast(distance_meters, 0, <<>>)

\* lines 370-387
create_split_time_summary(distance_meters) ==
    SplitLoop(distance_meters, 0, <<>>, 0)

\* a u32 is two 16-bit limbs, [hi, lo] for hi * 2^16 + lo
LIMB == 65536
ToU32(n) == [hi |-> n \div LIMB, lo |-> n % LIMB]

\* u32 addition of x (0 <= x < 2^31): the sum modulo 2^32, and whether it wrapped
AddU32(acc, x) ==
    LET lo == acc.lo + (x % LIMB)
        hi == acc.hi + (x \div LIMB) + (lo \div LIMB)
    IN [hi |-> hi % LIMB, lo |-> lo % LIMB, overflow |-> acc.overflow \/ hi >= LIMB]

\* iter().sum::<u32>(), left to right
RECURSIVE SumLoop(_, _)
SumLoop(s, acc) == IF s = <<>> THEN acc ELSE SumLoop(Tail(s), AddU32(acc, Head(s)))

SumU32(s) == SumLoop(s, [hi |-> 0, lo |-> 0, overflow |-> FALSE])

RoundHalfEven(a, b) ==
    LET q == a \div b
        r == a % b
    IN IF 2 * r > b \/ (2 * r = b /\ q % 2 = 1) THEN q + 1 ELSE q

\* the bits to drop so that 24 stay: the least k with n < 2^(24 + k)
RECURSIVE ShiftFor(_, _)
ShiftFor(hi, k) == IF hi < Pow2(8 + k) THEN k ELSE ShiftFor(hi, k + 1)

\* u32 as f32: the nearest value m * 2^e with m < 2^24, ties to even
AsF32(n) ==
    LET k == ShiftFor(n.hi, 0)
        q == n.hi * Pow2(16 - k) + n.lo \div Pow2(k)
        r == n.lo % Pow2(k)
        m == IF 2 * r > Pow2(k) \/ (2 * r = Pow2(k) /\ q % 2 = 1) THEN q + 1 ELSE q
    IN IF m = Pow2(24) THEN [m |-> Pow2(23), e |-> k + 1] ELSE [m |-> m, e |-> k]

\* the least s with a * 2^s >= 2^23 * b
RECURSIVE ScaleFor(_, _, _)
ScaleFor(a, b, s) ==
    IF a * Pow2(s) >= Pow2(23) * b THEN s ELSE ScaleFor(a, b, s + 1)

\* the f32 quotient a / b, then `as u32`: the quotient is rounded to a 24-bit
\* significand, ties to even, and its fraction is dropped; 0.0 / 0.0 is NaN and
\* NaN as u32 is 0. b is a sample count (b.m < 2^7) and the result is below 2^31.
DivF32AsU32(a, b) ==
    IF a.m = 0 THEN 0
    ELSE LET s == ScaleFor(a.m, b.m, 0)
             m == RoundHalfEven(a.m * Pow2(s), b.m)
             e == a.e - b.e - s
         IN IF e >= 0 THEN m * Pow2(e)
            ELSE IF e <= 0 - 31 THEN 0
            ELSE m \div Pow2(0 - e)

\* line 390, the sum as u32 arithmetic without overflow checks gives it
Average(heart_rates) ==
    DivF32AsU32(AsF32(SumU32(heart_rates)), AsF32(ToU32(Len(heart_rates))))

\* the limits taken on the wrong side
RangeInclusive(r) ==
    IF r <= LOW THEN "<115"
    ELSE IF r > LOW /\ r <= HIGH THEN "-150"
    ELSE ">150"

\* lines 394-398
Range(r) ==
    IF r < LOW THEN "<115"
    ELSE IF r >= LOW /\ r < HIGH THEN "-150"
    ELSE ">150"

\* lines 400-407: find the entry of the range and count, or push a new entry
Count(details, range) ==
    LET el == {i \in 1..Len(details) : details[i][1] = range}
    IN IF el # {}
       THEN LET index == CHOOSE i \in el : \A j \in el : i <= j
            IN [details EXCEPT ![index] = <<details[index][1], details[index][2] + 1>>]
       ELSE Append(details, <<range, 1>>)

RECURSIVE DetailsLoop(_, _)
DetailsLoop(rates, details) ==
    IF rates = <<>> THEN details
    ELSE DetailsLoop(Tail(rates), Count(details, Range(Head(rates))))

\* line 390 panics when the sum overflows and the build checks overflow; with no
\* heart rate it gives 0 and max().unwrap() of line 391 panics
create_heart_rate_summary(heart_rates) ==
    IF overflow_checks /\ SumU32(heart_rates).overflow THEN [kind |-> "panic"]
    ELSE IF heart_rates = <<>> THEN [kind |-> "panic"]
    ELSE [kind |-> "value",
          v |-> [average |-> Average(heart_rates),
                 max |-> MaxSeq(heart_rates),
                 details |-> DetailsLoop(heart_rates, <<>>)]]

DistanceMeters(trackpoint) == [i \in 1..Len(trackpoint) |-> trackpoint[i].distance_meters]
HeartRates(trackpoint) == [i \in 1..Len(trackpoint) |-> trackpoint[i].heart_rate_bpm]

\* content is the document as quick_xml sees it: malformed, or a
\* TrainingCenterDatabase whose activities carry an optional lap
collect_summary(content) ==
    IF ~content.well_formed THEN [kind |-> "panic"]
    ELSE IF content.activity = <<>> THEN [kind |-> "panic"]
    ELSE LET lap == content.activity[1].lap IN
    IF ~lap.some THEN [kind |-> "value", v |-> None]
    ELSE LET trackpoint == lap.v
             split_time_summary == create_split_time_summary(DistanceMeters(trackpoint))
             heart_rate_summary == create_heart_rate_summary(HeartRates(trackpoint))
         IN IF heart_rate_summary.kind = "panic" THEN [kind |-> "panic"]
            ELSE [kind |-> "value",
                  v |-> Some([split_time_summary |-> split_time_summary,
                              heart_rate_summary |-> heart_rate_summary.v])]

\* lines 84-88: "{}m{}s"
format_split_time(seconds) ==
    [minutes |-> seconds \div 60, remaining_seconds |-> seconds % 60]

\* ActivityOutput::new; distance, duration and calories are copied like start_time
ActivityOutput(activity, summary) ==
    [start_time |-> activity.startTime,
     split_times |-> [i \in 1..Len(summary.split_time_summary) |->
                         format_split_time(summary.split_time_summary[i])],
     heart_rate_average |-> summary.heart_rate_summary.average,
     heart_rate_max |-> summary.heart_rate_summary.max,
     heart_rate_details |-> summary.heart_rate_summary.details]

\* the name compared without regard to case
FindRunAnyCase(list) ==
    LET runs == {i \in 1..Len(list) : list[i].activityName \in {"Run", "run"}}
    IN IF runs = {} THEN None
       ELSE Some(list[CHOOSE i \in runs : \A j \in runs : i <= j])

\* line 164: activities.iter().find(|a| a.activityName == "Run")
FindRun(list) ==
    LET runs == {i \in 1..Len(list) : list[i].activityName = "Run"}
    IN IF runs = {} THEN None
       ELSE Some(list[CHOOSE i \in runs : \A j \in runs : i <= j])

----------------------------------------------------------------------------
(* What the run can meet: the stored record, the clock, the upstream *)

AccessTokens == Strings(MaxTokLen)
\* the access token on disk: the shortest, the longest, and one that is written
\* escaped
StoredAccessTokens == {<<>>, [k \in 1..MaxTokLen |-> "a"], <<QUOTE>>}
\* the refresh token on disk and the one the upstream hands out
StoredRefreshTokens == {<<"b">>}
RefreshTokens == {<<"a">>}
\* the clock on the second and half a second later; a later reading is any of
\* them, as the clock may be set during the request
Nows == {Time(100, 0), Time(100, 500000000)}
\* around the margin, in each width of the sub-second part
ExpiresAts ==
    {Time(160, 0), Time(160, 500000000), Time(161, 250000), Time(160, 123456789)}
ExpiresIns == {3600}

StoredTokens ==
    [access_token : StoredAccessTokens, refresh_token : StoredRefreshTokens,
     expires_at : ExpiresAts]

Responses ==
    [access_token : AccessTokens, refresh_token : RefreshTokens, expires_in : ExpiresIns]

TheSince == <<"2", "0", "2", "4", "-", "0", "1", "-", "1", "5">>
\* a date, a date without padding, a day that does not exist, and two other shapes
SinceArgs ==
    {TheSince,
     <<"2", "0", "2", "4", "-", "2", "-", "2", "9">>,
     <<"2", "0", "2", "3", "-", "0", "2", "-", "2", "9">>,
     <<"2", "0", "2", "4", "0", "1", "1", "5">>,
     <<"2", "0", "2", "4", "-", "0", "1", "-", "1", "5", "x">>}

Replies ==
    {[kind |-> "unreachable"], [kind |-> "rejected"], [kind |-> "garbled"]}
    \cup {[kind |-> "granted", response |-> r] : r \in Responses}

ActivityNames == {"Run", "run", "Walk"}

\* the list is sorted by start time, latest first (sort=desc); startTime is a day number
ActivityLists ==
    UNION {{[i \in 1..n |-> [logId |-> i, activityName |-> names[i],
                             startTime |-> MaxActs + 1 - i]] :
              names \in [1..n -> ActivityNames]} : n \in 0..MaxActs}

HeartRateValues == {100, 114, 115, 149, 150}
\* heart rates whose sum leaves the 24 bits of an f32, or the 32 bits of a u32
LargeHeartRateValues == {120, 16777217, 1073741824}
\* a distance is an f64 of the document: a negative one can be written there
DistanceValues == {0 - 1000, 0, 500, 1000, 1600, 2000}

SeqsUpTo(S, n) == UNION {[1..k -> S] : k \in 0..n}

\* laps: every heart-rate sequence over a steady pace, every distance sequence
\* over a steady heart rate
Laps ==
    {[i \in 1..Len(h) |-> [heart_rate_bpm |-> h[i], distance_meters |-> 500 * i]] :
        h \in SeqsUpTo(HeartRateValues, MaxLen)}
    \cup {[i \in 1..Len(d) |-> [heart_rate_bpm |-> 120, distance_meters |-> d[i]]] :
        d \in SeqsUpTo(DistanceValues, MaxLen)}

\* laps whose heart rates are large
LargeLaps ==
    {[i \in 1..Len(h) |-> [heart_rate_bpm |-> h[i], distance_meters |-> 500 * i]] :
        h \in SeqsUpTo(LargeHeartRateValues, MaxLen)}

Documents ==
    {[well_formed |-> FALSE, activity |-> <<>>],
     [well_formed |-> TRUE, activity |-> <<>>],
     [well_formed |-> TRUE, activity |-> <<[lap |-> None]>>]}
    \cup {[well_formed |-> TRUE, activity |-> <<[lap |-> Some(l)]>>] : l \in Laps}

LargeDocuments == {[well_formed |-> TRUE, activity |-> <<[lap |-> Some(l)]>>] : l \in LargeLaps}

\* what view::get returns, and what the platform answers
Texts == {"Ok", "Err", "panic"}
Posts == {"ok", "unreachable", "rejected"}

TheList == Ok(<<[logId |-> 1, activityName |-> "Run", startTime |-> MaxActs]>>)
TheDocument ==
    Ok([well_formed |-> TRUE,
        activity |-> <<[lap |-> Some(<<[heart_rate_bpm |-> 120, distance_meters |-> 1000]>>)]>>])
TheTokens ==
    [access_token |-> <<"a">>, refresh_token |-> <<"b">>, expires_at |-> Time(161, 0)]

Pending == [kind |-> "Pending"]

InitRun ==
    /\ pc = "access_token"
    /\ tokens = None
    /\ new_tokens = None
    /\ file_before = None
    /\ wpos = 0
    /\ access = Pending
    /\ calls = <<>>
    /\ fetched_log = 0
    /\ outcome = "running"
    /\ output = None

\* any stored record or none, any answer of the token endpoint
InitTokens ==
    /\ \/ file_exists = FALSE /\ file = <<>>
       \/ file_exists = TRUE /\ \E t \in StoredTokens : file = to_string_pretty(t)
    /\ now \in Nows
    /\ reply \in Replies
    /\ activities = TheList
    /\ tcx = TheDocument
    /\ since = TheSince
    /\ overflow_checks = FALSE
    /\ preview = FALSE /\ text = "Ok" /\ posted = "ok"
    /\ stdout_writable \in BOOLEAN

\* a fresh stored token, any --since argument, any activity list
InitActivities ==
    /\ file_exists = TRUE /\ file = to_string_pretty(TheTokens)
    /\ now = Time(100, 0)
    /\ reply = [kind |-> "unreachable"]
    /\ activities \in {Err("transport")} \cup {Ok(l) : l \in ActivityLists}
    /\ tcx = TheDocument
    /\ since \in SinceArgs
    /\ overflow_checks = FALSE
    /\ preview = TRUE /\ text = "Ok" /\ posted = "ok"
    /\ stdout_writable \in BOOLEAN

\* a fresh stored token, a run in the list, any activity log
InitDocuments ==
    /\ file_exists = TRUE /\ file = to_string_pretty(TheTokens)
    /\ now = Time(100, 0)
    /\ reply = [kind |-> "unreachable"]
    /\ activities = TheList
    /\ tcx \in {Err("transport")} \cup {Ok(d) : d \in Documents}
    /\ since = TheSince
    /\ overflow_checks = FALSE
    /\ preview = TRUE /\ text = "Ok" /\ posted = "ok"
    /\ stdout_writable = TRUE

\* the same with large heart rates, in either build
InitBuilds ==
    /\ file_exists = TRUE /\ file = to_string_pretty(TheTokens)
    /\ now = Time(100, 0)
    /\ reply = [kind |-> "unreachable"]
    /\ activities = TheList
    /\ tcx \in {Ok(d) : d \in LargeDocuments}
    /\ since = TheSince
    /\ overflow_checks \in BOOLEAN
    /\ preview = TRUE /\ text = "Ok" /\ posted = "ok"
    /\ stdout_writable = TRUE

\* a report that is made: either mode, any text, any answer to the post
InitReports ==
    /\ file_exists = TRUE /\ file = to_string_pretty(TheTokens)
    /\ now = Time(100, 0)
    /\ reply = [kind |-> "unreachable"]
    /\ activities = TheList
    /\ tcx = TheDocument
    /\ since = TheSince
    /\ overflow_checks = FALSE
    /\ preview \in BOOLEAN /\ text \in Texts /\ posted \in Posts
    /\ stdout_writable \in BOOLEAN

Init ==
    InitRun /\ (InitTokens \/ InitActivities \/ InitDocuments \/ InitBuilds \/ InitReports)

----------------------------------------------------------------------------
(* FitbitApi::access_token *)

Env == <<now, reply, activities, tcx, since, overflow_checks, preview, text, posted,
         stdout_writable>>

\* lines 116-121, and the branch taken after them
AccessToken ==
    /\ pc = "access_token"
    /\ tokens' = load_tokens(file_exists, file)
    /\ IF tokens'.some
       THEN IF IsFresh(tokens'.v, now)
            THEN /\ access' = Ok(Some(tokens'.v.access_token))
                 /\ pc' = "run"
            ELSE /\ pc' = "refresh_token"
                 /\ UNCHANGED access
       ELSE /\ pc' = "authorize"
            /\ UNCHANGED access
    /\ UNCHANGED <<Env, file_exists, file, new_tokens, file_before, wpos, calls,
                   fetched_log, outcome, output>>

\* a refresh that failed is sent once more before the error is returned
RefreshTokenRetry ==
    /\ pc = "refresh_token"
    /\ LET res == refresh_token(reply)
       IN IF res.kind = "Err"
          THEN /\ calls' = calls \o <<"refresh_token", "refresh_token">>
               /\ access' = res
               /\ pc' = "run"
               /\ UNCHANGED new_tokens
          ELSE IF ~res.v.some
          THEN /\ calls' = Append(calls, "refresh_token")
               /\ access' = Ok(None)
               /\ pc' = "run"
               /\ UNCHANGED new_tokens
          ELSE /\ calls' = Append(calls, "refresh_token")
               /\ \E at \in Nows :
                    new_tokens' = Some(from_authorization_response(res.v.v, at))
               /\ pc' = "store_tokens"
               /\ UNCHANGED access
    /\ UNCHANGED <<Env, file_exists, file, tokens, file_before, wpos, fetched_log,
                   outcome, output>>

\* lines 122-126; line 70 reads the clock again, after the request
RefreshToken ==
    /\ pc = "refresh_token"
    /\ calls' = Append(calls, "refresh_token")
    /\ LET res == refresh_token(reply)
       IN IF res.kind = "Err"
          THEN /\ access' = res
               /\ pc' = "run"
               /\ UNCHANGED new_tokens
          ELSE IF ~res.v.some
          THEN /\ access' = Ok(None)
               /\ pc' = "run"
               /\ UNCHANGED new_tokens
          ELSE /\ \E at \in Nows :
                    new_tokens' = Some(from_authorization_response(res.v.v, at))
               /\ pc' = "store_tokens"
               /\ UNCHANGED access
    /\ UNCHANGED <<Env, file_exists, file, tokens, file_before, wpos, fetched_log,
                   outcome, output>>

\* lines 131-138: the code is read from stdin and exchanged; a read_line that
\* fails panics at line 136, before any request
Authorize ==
    /\ pc = "authorize"
    /\ \/ /\ outcome' = "panic"
          /\ pc' = "done"
          /\ UNCHANGED <<calls, access, new_tokens>>
       \/ /\ calls' = Append(calls, "authorize")
          /\ UNCHANGED outcome
          /\ LET res == authorize(reply)
             IN IF res.kind = "Err"
                THEN /\ access' = res
                     /\ pc' = "run"
                     /\ UNCHANGED new_tokens
                ELSE /\ \E at \in Nows :
                          new_tokens' = Some(from_authorization_response(res.v, at))
                     /\ pc' = "store_tokens"
                     /\ UNCHANGED access
    /\ UNCHANGED <<Env, file_exists, file, tokens, file_before, wpos, fetched_log,
                   output>>

\* store_tokens, lines 275-278: open the file as it is, or create it empty
StoreOpen ==
    /\ pc = "store_tokens"
    /\ file_before' = load_tokens(file_exists, file)
    /\ file_exists' = TRUE
    /\ file' = IF file_exists THEN file ELSE <<>>
    /\ wpos' = 0
    /\ pc' = "write_all"
    /\ UNCHANGED <<Env, tokens, new_tokens, access, calls, fetched_log, outcome, output>>

\* store_tokens, lines 275-276: the file can neither be opened nor created, and
\* expect panics with the path as it was
StoreOpenFail ==
    /\ pc = "store_tokens"
    /\ file_before' = load_tokens(file_exists, file)
    /\ outcome' = "panic"
    /\ pc' = "done"
    /\ UNCHANGED <<Env, file_exists, file, tokens, new_tokens, wpos, access, calls,
                   fetched_log, output>>

\* store_tokens, line 279: write_all writes the buffer from offset 0, byte by byte
StoreWrite ==
    /\ pc = "write_all"
    /\ wpos < Len(to_string_pretty(new_tokens.v))
    /\ file' = WriteAt(file, wpos, to_string_pretty(new_tokens.v)[wpos + 1])
    /\ wpos' = wpos + 1
    /\ UNCHANGED <<Env, file_exists, pc, tokens, new_tokens, file_before, access, calls,
                   fetched_log, outcome, output>>

\* store_tokens, line 280: a failed write panics and leaves what was written
StoreFail ==
    /\ pc = "write_all"
    /\ wpos < Len(to_string_pretty(new_tokens.v))
    /\ outcome' = "panic"
    /\ pc' = "done"
    /\ UNCHANGED <<Env, file_exists, file, tokens, new_tokens, file_before, wpos, access,
                   calls, fetched_log, output>>

\* lines 128 / 140: the buffer is written, the file is closed as it is
StoreReturn ==
    /\ pc = "write_all"
    /\ wpos = Len(to_string_pretty(new_tokens.v))
    /\ access' = Ok(Some(new_tokens.v.access_token))
    /\ pc' = "run"
    /\ UNCHANGED <<Env, file_exists, file, tokens, new_tokens, file_before, wpos, calls,
                   fetched_log, outcome, output>>

----------------------------------------------------------------------------
(* run and fetch_latest_run_activity *)

\* main.rs line 82 and the like: println! panics when standard output cannot be
\* written, and the run ends there
println(said) == IF stdout_writable THEN said ELSE "panic"

\* main.rs lines 80-84
Run ==
    /\ pc = "run"
    /\ IF access.kind = "Err"
       THEN outcome' = "error" /\ pc' = "done"
       ELSE IF ~access.v.some \/ access.v.v = <<>>
       THEN outcome' = println("no_token") /\ pc' = "done"
       ELSE outcome' = outcome /\ pc' = "parse_since"
    /\ UNCHANGED <<Env, file_exists, file, tokens, new_tokens, file_before, wpos, access,
                   calls, fetched_log, output>>

\* main.rs lines 86-88: a --since that is no date panics before any request
ParseSince ==
    /\ pc = "parse_since"
    /\ IF parse_from_str(since).some
       THEN outcome' = outcome /\ pc' = "fetch_list"
       ELSE outcome' = "panic" /\ pc' = "done"
    /\ UNCHANGED <<Env, file_exists, file, tokens, new_tokens, file_before, wpos, access,
                   calls, fetched_log, output>>

\* fitbit.rs lines 155-165 and 172-174, and with None main.rs lines 93-96
FetchList ==
    /\ pc = "fetch_list"
    /\ calls' = Append(calls, "list")
    /\ IF activities.kind = "Err"
       THEN outcome' = "error" /\ pc' = "done" /\ UNCHANGED fetched_log
       ELSE LET run_activity == FindRun(activities.v)
            IN IF run_activity.some
               THEN /\ fetched_log' = run_activity.v.logId
                    /\ pc' = "fetch_log"
                    /\ UNCHANGED outcome
               ELSE /\ outcome' = println("no_run")
                    /\ pc' = "done"
                    /\ UNCHANGED fetched_log
    /\ UNCHANGED <<Env, file_exists, file, tokens, new_tokens, file_before, wpos, access,
                   output>>

\* fitbit.rs lines 166-171: with Some(ActivityOutput) run goes on at main.rs 98
FetchLog ==
    /\ pc = "fetch_log"
    /\ calls' = Append(calls, "log")
    /\ IF tcx.kind = "Err"
       THEN outcome' = "error" /\ pc' = "done" /\ UNCHANGED output
       ELSE LET content == collect_summary(tcx.v)
            IN IF content.kind = "panic" \/ ~content.v.some
               THEN outcome' = "panic" /\ pc' = "done" /\ UNCHANGED output
               ELSE /\ output' = Some(ActivityOutput(FindRun(activities.v).v, content.v.v))
                    /\ pc' = "view"
                    /\ UNCHANGED outcome
    /\ UNCHANGED <<Env, file_exists, file, tokens, new_tokens, file_before, wpos, access,
                   fetched_log>>

\* main.rs lines 98-109: view::get panics, fails or gives the text; the failure
\* is printed (line 101); the text is printed in preview mode (lines 106-107)
\* and posted otherwise
View ==
    /\ pc = "view"
    /\ IF text = "panic" THEN outcome' = "panic" /\ pc' = "done"
       ELSE IF text = "Err" THEN outcome' = println("no_text") /\ pc' = "done"
       ELSE IF preview THEN outcome' = println("preview") /\ pc' = "done"
       ELSE outcome' = outcome /\ pc' = "post_report"
    /\ UNCHANGED <<Env, file_exists, file, tokens, new_tokens, file_before, wpos, access,
                   calls, fetched_log, output>>

\* main.rs lines 108 and 115-133, mastodon.rs and misskey.rs: one request; a
\* transport failure is returned as the error, another status than success panics
PostReport ==
    /\ pc = "post_report"
    /\ calls' = Append(calls, "post")
    /\ pc' = "done"
    /\ outcome' = IF posted = "unreachable" THEN "error"
                  ELSE IF posted = "rejected" THEN "panic"
                  ELSE "posted"
    /\ UNCHANGED <<Env, file_exists, file, tokens, new_tokens, file_before, wpos, access,
                   fetched_log, output>>

Next ==
    \/ AccessToken
    \/ RefreshToken
    \/ Authorize
    \/ StoreOpen
    \/ StoreOpenFail
    \/ StoreWrite
    \/ StoreFail
    \/ StoreReturn
    \/ Run
    \/ ParseSince
    \/ FetchList
    \/ FetchLog
    \/ View
    \/ PostReport

Spec == Init /\ [][Next]_vars

----------------------------------------------------------------------------
(* Claims *)

Stored == load_tokens(file_exists, file)
AfterLog == {"view", "post_report", "done"}
Returned ==
    pc \in {"run", "parse_since", "fetch_list", "fetch_log"} \cup AfterLog /\ access # Pending
Refreshed == Returned /\ calls # <<>> /\ calls[1] = "refresh_token"
LogFetched ==
    pc \in AfterLog /\ (\E i \in 1..Len(calls) : calls[i] = "log") /\ tcx.kind = "Ok"
\* fetch_latest_run_activity has returned an ActivityOutput
Reported == pc \in AfterLog /\ output.some
Lap == tcx.v.activity[1].lap
LapHeartRates == HeartRates(Lap.v)
LapDistances == DistanceMeters(Lap.v)
Seconds(split_times) ==
    [i \in 1..Len(split_times) |->
        60 * split_times[i].minutes + split_times[i].remaining_seconds]

\* C1: after a refresh that succeeded, credentials.json read back by load_tokens
\* holds exactly the new token triple, whatever the old and the new values are
C1_RefreshStoresNewToken ==
    (Refreshed /\ access.kind = "Ok" /\ new_tokens.some) => Stored = new_tokens

\* C2: a stored token that expires more than 60 s from now is returned as it is,
\* with no refresh and no authorize request, and credentials.json keeps its content
C2_TokenReuse ==
    (/\ pc # "access_token" /\ tokens.some
     /\ \/ tokens.v.expires_at.days > now.days
        \/ /\ tokens.v.expires_at.days = now.days
           /\ tokens.v.expires_at.secs > now.secs + 60
        \/ /\ tokens.v.expires_at.days = now.days
           /\ tokens.v.expires_at.secs = now.secs + 60
           /\ tokens.v.expires_at.nanos > now.nanos)
    => /\ access = Ok(Some(tokens.v.access_token))
       /\ \A i \in 1..Len(calls) : calls[i] \notin {"refresh_token", "authorize"}
       /\ new_tokens = None
       /\ file_exists /\ file = to_string_pretty(tokens.v)
       /\ Stored = tokens

C2_Witness ==
    /\ pc = "run" /\ tokens.some
    /\ tokens.v.expires_at.days = now.days
    /\ tokens.v.expires_at.secs = now.secs + 60 /\ tokens.v.expires_at.nanos > now.nanos
    /\ access = Ok(Some(tokens.v.access_token)) /\ calls = <<>>

\* C3: from the moment store_tokens is entered, at every point of it and after it,
\* the record in credentials.json is the complete previous one or the complete new one
C3_AtomicStore ==
    (new_tokens.some /\ pc # "store_tokens") => Stored \in {file_before, new_tokens}

\* C4: an activity log that parses and whose first activity has no lap ends in a
\* report with average 0, max 0, no bucket and no split, and nothing aborts
C4_AbsentLapReport ==
    (LogFetched /\ tcx.v.well_formed /\ tcx.v.activity # <<>> /\ ~Lap.some)
    => /\ Reported
       /\ outcome # "panic"
       /\ output.v.heart_rate_average = 0
       /\ output.v.heart_rate_max = 0
       /\ output.v.heart_rate_details = <<>>
       /\ output.v.split_times = <<>>

\* C5: a refresh the upstream rejects ends as Ok(None), which run reports as a
\* failure to get a token; a transport failure ends as the fatal error; a
\* rejection is never the fatal error
C5_RefreshOutcomes ==
    (Refreshed /\ pc = "done")
    => /\ reply.kind = "rejected" => (access = Ok(None) /\ outcome = "no_token")
       /\ reply.kind = "unreachable" => (access.kind = "Err" /\ outcome = "error")

\* C6 as written: cumulative distances [500,1000,1600,2000] give the splits [2, 2]
C6_SplitExampleAsWritten ==
    (Reported /\ LapDistances = <<500, 1000, 1600, 2000>>)
    => Seconds(output.v.split_times) = <<2, 2>>

\* 0-based positions of the kilometer crossings, the samples whose distance is an
\* exact multiple of 1000 other than 0, in order
CrossingSet(d) == {n \in 0..(Len(d) - 1) : d[n + 1] # 0 /\ d[n + 1] % 1000 = 0}
NthCrossing(d, k) ==
    CHOOSE n \in CrossingSet(d) : Cardinality({m \in CrossingSet(d) : m < n}) = k - 1

\* C6: each split is the 0-based position of a kilometer crossing minus that of the
\* previous crossing, the first one being the position of the first crossing (the
\* number of samples before it); [500,1000,1600,2000] gives [1, 2]
C6_SplitValues ==
    Reported
    => LET d == LapDistances
           splits == Seconds(output.v.split_times)
       IN /\ Len(splits) = Cardinality(CrossingSet(d))
          /\ \A k \in 1..Len(splits) :
                splits[k] = NthCrossing(d, k) - (IF k = 1 THEN 0 ELSE NthCrossing(d, k - 1))
          /\ d = <<500, 1000, 1600, 2000>> => splits = <<1, 2>>

C6_Witness ==
    /\ Reported
    /\ LapDistances = <<500, 1000, 1600, 2000>>
    /\ Seconds(output.v.split_times) = <<1, 2>>

\* C7 as written: the split summary has one entry for each sample whose distance is
\* a positive exact multiple of 1000, no entry underflows and the entries sum to at
\* most the number of samples
C7_SplitCountAsWritten ==
    Reported
    => LET d == LapDistances
           splits == create_split_time_summary(d)
       IN /\ Len(splits) = Cardinality({i \in 1..Len(d) : d[i] > 0 /\ d[i] % 1000 = 0})
          /\ \A k \in 1..Len(splits) : splits[k] >= 0
          /\ SumSeq(splits) <= Len(d)
          /\ Seconds(output.v.split_times) = splits

\* C7: the split summary has one entry for each sample whose distance is an exact
\* multiple of 1000 other than 0, a negative multiple included; no entry underflows
\* and the entries sum to at most the number of samples
C7_SplitCount ==
    Reported
    => LET d == LapDistances
           splits == create_split_time_summary(d)
       IN /\ Len(splits) = Cardinality({i \in 1..Len(d) : d[i] # 0 /\ d[i] % 1000 = 0})
          /\ \A k \in 1..Len(splits) : splits[k] >= 0
          /\ SumSeq(splits) <= Len(d)
          /\ Seconds(output.v.split_times) = splits

C7_Witness ==
    /\ Reported
    /\ LapDistances = <<0, 0 - 1000, 500, 2000>>
    /\ Seconds(output.v.split_times) = <<1, 2>>

\* C8: a lap that is present and has no trackpoint is summarized as the zero-valued
\* summary and never ends the run with a panic
C8_EmptyLap ==
    (LogFetched /\ tcx.v.well_formed /\ tcx.v.activity # <<>> /\ Lap.some /\ Lap.v = <<>>)
    => /\ Reported
       /\ outcome # "panic"
       /\ output.v.heart_rate_average = 0
       /\ output.v.heart_rate_max = 0
       /\ output.v.heart_rate_details = <<>>
       /\ output.v.split_times = <<>>

BucketOf(rate) ==
    IF rate < 115 THEN "<115" ELSE IF rate < 150 THEN "-150" ELSE ">150"
FirstSeen(h, label) ==
    CHOOSE k \in 1..Len(h) : BucketOf(h[k]) = label /\ \A m \in 1..(k - 1) : BucketOf(h[m]) # label

\* C9: every sample is counted in exactly one bucket, the one of its range; a label
\* appears at most once; the counts sum to the number of samples; the labels are
\* in the order in which they first occur among the samples
C9_Buckets ==
    Reported
    => LET h == LapHeartRates
           details == output.v.heart_rate_details
       IN /\ \A i \in 1..Len(details) :
                /\ details[i][2] = Cardinality({k \in 1..Len(h) : BucketOf(h[k]) = details[i][1]})
                /\ details[i][2] >= 1
          /\ \A i, j \in 1..Len(details) : i # j => details[i][1] # details[j][1]
          /\ SumSeq([i \in 1..Len(details) |-> details[i][2]]) = Len(h)
          /\ \A i, j \in 1..Len(details) :
                i < j => FirstSeen(h, details[i][1]) < FirstSeen(h, details[j][1])

C9_Witness ==
    /\ Reported
    /\ LapHeartRates = <<150, 100, 150, 149>>
    /\ output.v.heart_rate_details = <<<<">150", 2>>, <<"<115", 1>>, <<"-150", 1>>>>

\* the exact sum of h divided by its length, truncated: the sum is kept in two
\* parts, the multiples of 2^16 and the rest
FloorMean(h) ==
    LET hi == SumSeq([i \in 1..Len(h) |-> h[i] \div 65536])
        lo == SumSeq([i \in 1..Len(h) |-> h[i] % 65536])
        n == Len(h)
    IN (hi \div n) * 65536 + ((hi % n) * 65536 + lo) \div n

\* C10: for every lap with at least one sample a summary is returned, its average
\* is the sum of the heart rates divided by their number, truncated, and its max
\* is the largest heart rate
C10_AverageMax ==
    (LogFetched /\ tcx.v.well_formed /\ tcx.v.activity # <<>> /\ Lap.some /\ Lap.v # <<>>)
    => /\ Reported
       /\ LET h == LapHeartRates
          IN /\ output.v.heart_rate_average = FloorMean(h)
             /\ \A k \in 1..Len(h) : h[k] <= output.v.heart_rate_max
             /\ \E k \in 1..Len(h) : h[k] = output.v.heart_rate_max

ListFetched ==
    pc \in {"fetch_log"} \cup AfterLog /\ calls # <<>>
    /\ "list" \in {calls[i] : i \in 1..Len(calls)}
    /\ activities.kind = "Ok"
RunPositions == {i \in 1..Len(activities.v) : activities.v[i].activityName = "Run"}
Requests(name) == Cardinality({i \in 1..Len(calls) : calls[i] = name})

\* C11: in the list as received, the activity whose log is fetched and reported is
\* the first one named exactly "Run"; with no such activity nothing is returned
\* and no log is requested, and the run ends saying "no run" (where standard
\* output cannot be written, in the panic of that println!)
C11_ActivitySelection ==
    ListFetched
    => IF RunPositions = {}
       THEN /\ pc = "done"
            /\ outcome = IF stdout_writable THEN "no_run" ELSE "panic"
            /\ fetched_log = 0 /\ Requests("log") = 0 /\ output = None
       ELSE LET first == CHOOSE i \in RunPositions : \A j \in RunPositions : i <= j
            IN /\ fetched_log = activities.v[first].logId
               /\ outcome # "no_run"
               /\ Reported => output.v.start_time = activities.v[first].startTime

C11_Witness ==
    /\ Reported
    /\ Len(activities.v) = 2
    /\ activities.v[1].activityName = "run"
    /\ activities.v[2].activityName = "Run"
    /\ fetched_log = activities.v[2].logId
    /\ output.v.start_time = activities.v[2].startTime

\* C12: when the refresh does not succeed, credentials.json is what it was before
\* the call and still reads back as the token loaded at the start, exactly one
\* refresh request was sent and no other token request
C12_FailedRefreshKeepsStore ==
    (Refreshed /\ (access.kind = "Err" \/ access = Ok(None)))
    => /\ file_exists /\ file = to_string_pretty(tokens.v)
       /\ Stored = tokens
       /\ new_tokens = None
       /\ Requests("refresh_token") = 1
       /\ Requests("authorize") = 0

C12_Witness ==
    /\ pc = "done" /\ outcome = "error"
    /\ reply.kind = "rejected"
    /\ calls = <<"refresh_token">>
    /\ tokens.some /\ Stored = tokens

====
